---- MODULE Spec2Model ----
(***************************************************************************)
(* A model of the localagent package: the agent loop (LocalAgent.run and   *)
(* LocalAgent.stream, agent.py), the streaming decoder                     *)
(* (stream_agent_response, llm.py), the history store                      *)
(* (History.add_message / ensure_valid_ids, types.py), the schema aligner  *)
(* (align_schema_with_tools, utils.py) and the default environment         *)
(* (DefaultEnvironment, environment.py).                                   *)
(*                                                                         *)
(* Python objects are modelled with identity: `heap` is the object store   *)
(* of Message objects (a reference is an index into it) and `history` is   *)
(* History.root, a sequence of references.  Optional values are modelled   *)
(* as sequences of length <= 1: None is <<>> and a value v is <<v>>.       *)
(* Strings are sequences of characters.                                    *)
(***************************************************************************)
EXTENDS Integers, Sequences, FiniteSets, TLC

VARIABLES
    pc,                 \* where the modelled coroutine stands
    max_iterations,     \* LocalAgent.max_iterations
    tool_call_callback, \* TRUE iff LocalAgent.tool_call_callback is not None
    iteration,          \* the local `iteration` of run()
    heap,               \* the Message objects: reference -> fields
    history,            \* History.root: a sequence of references into heap
    content,            \* the decoder's accumulated text
    last_yielded,       \* the decoder's last yielded snapshot
    response,           \* run()'s `response`: None or the last snapshot
    yielded,            \* what run() / the decoder has yielded so far
    prev_content,       \* stream()'s prev_content
    emitted,            \* what stream() has yielded so far
    error,              \* the exception the coroutine ended with, or "none"
    turns,              \* loop bodies of run() that ran to their end
    ndeltas,            \* deltas the backend has sent in the current stream
    emit_turn,          \* the iteration in which stream() last yielded text
    call,               \* the arguments of the last add_message call
    result,             \* how the last add_message call ended
    tools,              \* the tool list the tools collaborator answers now
    context,            \* the History the last get_context returned
    remaining,          \* remaining_iterations of the last get_context call
    max_history_length, \* DefaultEnvironment.max_history_length
    reduce_history_by,  \* DefaultEnvironment.reduce_history_by
    last_call,          \* what the last get_context did to the stored history
    returned,           \* what the last on_agent_message_completed returned
    used_terminating,   \* the terminating names that call decided with
    op,                 \* the operation on the environment that acted last
    base_fields,        \* the fields of the schema given to the aligner
    aligned,            \* None, or what align_schema_with_tools returned
    candidate,          \* the action of the response last validated, or
                        \* of the one on_agent_message_completed last got
    verdict,            \* how that validation ended
    caller_history,     \* the root of the History the caller gave run()
    private,            \* TRUE iff run()'s `history` is its own copy
    agent_message_completion_hook, \* TRUE iff that hook is not None
    hook_calls          \* calls of agent_message_completion_hook so far

vars == <<pc, max_iterations, tool_call_callback, iteration, heap, history,
          content, last_yielded, response, yielded, prev_content, emitted,
          error, turns, ndeltas, emit_turn, call, result, tools, context,
          remaining, max_history_length, reduce_history_by, last_call,
          returned, used_terminating, op, base_fields, aligned, candidate,
          verdict, caller_history, private, agent_message_completion_hook,
          hook_calls>>

envVars == <<tools, context, remaining, max_history_length,
             reduce_history_by, last_call, returned, used_terminating, op>>

alignVars == <<base_fields, aligned, candidate, verdict>>

runVars == <<caller_history, private, agent_message_completion_hook,
             hook_calls>>

loopVars == <<max_iterations, tool_call_callback, iteration, content,
              last_yielded, response, yielded, prev_content, emitted, error,
              turns, ndeltas, emit_turn, runVars>>

----------------------------------------------------------------------------
(* Bounds of the model *)

\* the largest max_iterations the loop is configured with
MaxIterations == 2
\* the most deltas the backend sends in one stream (agent loop)
MaxDeltas == 2
\* the most deltas fed to one decode call (decoder on its own)
MaxTokens == 4
\* the longest history add_message is applied to
MaxHistLen == 3
\* the most tools given to the aligner
MaxTools == 2
\* the most Message objects an environment's histories hold at a time
MaxObjects == 5

----------------------------------------------------------------------------
(* Values *)

None == <<>>
Some(v) == <<v>>

Last(s) == s[Len(s)]

IsPrefix(p, s) == Len(p) <= Len(s) /\ SubSeq(s, 1, Len(p)) = p

\* s[n:] of Python, for 0 <= n <= len(s)
DropFirst(s, n) == SubSeq(s, n + 1, Len(s))

----------------------------------------------------------------------------
(* types.py: Message, MessageFlag, History *)

\* Message(...): id defaults to None, flags to the empty list
Message(id, role, text, flags) ==
    [id |-> id, role |-> role, content |-> text, flags |-> flags]

\* History.ensure_valid_ids: message.id = idx for idx, message in
\* enumerate(root), in this order, on the objects themselves: an object that
\* stands at several positions ends with the id of its last position.
RECURSIVE EnsureFrom(_, _, _)
EnsureFrom(h, root, idx) ==
    IF idx > Len(root) THEN h
    ELSE EnsureFrom([h EXCEPT ![root[idx]].id = Some(idx - 1)], root, idx + 1)

ensure_valid_ids(h, root) == EnsureFrom(h, root, 1)

\* (mutant) the bounds check with the tail position left out
IndexInBoundsStrict(index, root) == 0 <= index /\ index < Len(root)

\* the bounds check of add_message
IndexInBounds(index, root) == 0 <= index /\ index <= Len(root)

\* self.root[:index] + (msg,) + self.root[index:]
InsertAt(root, index, ref) ==
    SubSeq(root, 1, index) \o <<ref>> \o SubSeq(root, index + 1, Len(root))

\* History.add_message(msg, role=, content=, flags=, index=): what the call
\* leaves behind.  msg is None or a reference to the Message passed in.
add_message(h, root, msg, role, text, flags, index) ==
    LET idx == IF index = None THEN Len(root) ELSE index[1]
    IN  IF ~IndexInBounds(idx, root)
        THEN [heap |-> h, root |-> root, result |-> "IndexError"]
        ELSE LET ref == IF msg = None THEN Len(h) + 1 ELSE msg[1]
                 h1  == IF msg = None
                        THEN Append(h, Message(Some(idx), role, text, flags))
                        ELSE [h EXCEPT ![ref].id = Some(idx)]
                 r1  == InsertAt(root, idx, ref)
             IN  [heap |-> ensure_valid_ids(h1, r1), root |-> r1,
                  result |-> "ok"]

\* a validated History holding the user's query: History.model_validate sets
\* the ids (validate_ids); run() works on a deep copy of it
SeedHeap == <<Message(Some(0), "user", <<"query">>, <<>>)>>
SeedHistory == <<1>>

----------------------------------------------------------------------------
(* types.py: AgentResponse, CallToolRequestParams *)

\* CallToolRequestParams: the tool's name (arguments are not modelled)
Action(name) == [name |-> name]

\* AgentResponse(msg_to_user=, action=, turn_completed=)
AgentResponse(msg, action, completed) ==
    [msg_to_user |-> msg, action |-> action, turn_completed |-> completed]

\* schema(): every field at its default
DefaultResponse == AgentResponse(None, None, FALSE)

----------------------------------------------------------------------------
(* llm.py: the tolerant parse of the accumulated text and its validation.  *)
(* The text is a sequence of lexical pieces of the JSON the backend        *)
(* writes:                                                                 *)
(*   "{"  "}"  ","        the punctuation (literal characters in a string) *)
(*   "m"   the key and opening quote   "msg_to_user":"                     *)
(*   "a" "b"  a character of the string                                    *)
(*   "q"   the closing quote of the string                                 *)
(*   "t"   "action":{"name":"search","arguments":{}}                       *)
(*   "f"   "action":{"name":"answer","arguments":{}}                       *)
(*   "n"   "action":null                                                   *)
(*   "x"   "action":5             (parses, does not validate)              *)
(*   "p"   "action":{"name":"search"   (an action still lacking arguments:  *)
(*                                      parses, does not validate)         *)
(*   "r"   ,"arguments":{}}           (the rest of that action)            *)

Pieces == {"{", "}", ",", "m", "a", "b", "q", "t", "f", "n", "x", "p", "r"}

\* the pieces that are one literal character inside a string
StringChars == {"a", "b", "{", "}", ","}

\* the parser before any text: mode is where the parser stands, obj the
\* members read so far (a later member of the same key replaces the earlier)
ParserStart == [mode |-> "start", msg |-> None, action |-> None,
                valid |-> TRUE]

ActionOf(piece) ==
    CASE piece = "t" -> Some(Action("search"))
      [] piece = "f" -> Some(Action("answer"))
      [] OTHER       -> None

\* the parser after one more piece; text after the closing brace is left
\* unread, text that does not continue the JSON makes the parse fail
ParseStep(st, piece) ==
    LET fail == [st EXCEPT !.mode = "fail"]
        member ==
            CASE piece = "m" ->
                    [st EXCEPT !.mode = "string", !.msg = Some(<<>>)]
              [] piece \in {"t", "f", "n"} ->
                    [st EXCEPT !.mode = "after", !.action = ActionOf(piece),
                               !.valid = TRUE]
              [] piece = "x" ->
                    [st EXCEPT !.mode = "after", !.valid = FALSE]
              [] piece = "p" ->
                    [st EXCEPT !.mode = "action", !.valid = FALSE]
              [] OTHER -> fail
    IN  CASE st.mode = "start" ->
                IF piece = "{" THEN [st EXCEPT !.mode = "open"] ELSE fail
          [] st.mode = "open" ->
                IF piece = "}" THEN [st EXCEPT !.mode = "closed"] ELSE member
          [] st.mode = "member" -> member
          [] st.mode = "string" ->
                IF piece \in StringChars
                THEN [st EXCEPT !.msg = Some(Append(st.msg[1], piece))]
                ELSE IF piece = "q" THEN [st EXCEPT !.mode = "after"]
                ELSE fail
          [] st.mode = "after" ->
                IF piece = "," THEN [st EXCEPT !.mode = "member"]
                ELSE IF piece = "}" THEN [st EXCEPT !.mode = "closed"]
                ELSE fail
          [] st.mode = "action" ->
                IF piece = "r"
                THEN [st EXCEPT !.mode = "after",
                                !.action = Some(Action("search")),
                                !.valid = TRUE]
                ELSE fail
          [] st.mode = "closed" -> st
          [] OTHER -> fail

RECURSIVE ParseFrom(_, _)
ParseFrom(st, text) ==
    IF text = <<>> THEN st
    ELSE ParseFrom(ParseStep(st, Head(text)), Tail(text))

\* schema.model_validate(parser.parse(content)): None when either raises,
\* else the validated value; absent fields take their defaults
ParseAndValidate(text) ==
    LET st == ParseFrom(ParserStart, text)
    IN  IF st.mode \in {"start", "fail"} \/ ~st.valid THEN None
        ELSE Some(AgentResponse(st.msg, st.action, FALSE))

\* (mutant) every validated value counts as new
AlwaysDiffers(res, last) == TRUE

\* `if result != last_yielded`
Differs(res, last) == res # last

\* (mutant) a text that fails to parse or validate is dropped from the
\* buffer
DecodeChunkDropsFailed(buf, last, delta) ==
    IF delta = <<>>
    THEN [content |-> buf, last_yielded |-> last, yield |-> None]
    ELSE LET text == buf \o delta
             res  == ParseAndValidate(text)
         IN  IF res = None
             THEN [content |-> <<>>, last_yielded |-> last, yield |-> None]
             ELSE IF Differs(res[1], last)
             THEN [content |-> text, last_yielded |-> res[1], yield |-> res]
             ELSE [content |-> text, last_yielded |-> last, yield |-> None]

\* One pass of the decoder's loop body for a chunk whose text is delta:
\* the new buffer, the new last_yielded and what is yielded (None or a value)
DecodeChunk(buf, last, delta) ==
    IF delta = <<>>
    THEN [content |-> buf, last_yielded |-> last, yield |-> None]
    ELSE LET text == buf \o delta
             res  == ParseAndValidate(text)
         IN  IF res # None /\ Differs(res[1], last)
             THEN [content |-> text, last_yielded |-> res[1], yield |-> res]
             ELSE [content |-> text, last_yielded |-> last, yield |-> None]

----------------------------------------------------------------------------
(* agent.py: LocalAgent.stream, the consumer of run()'s responses *)

\* LocalAgent.message_separation_token (one item, no character of a message)
message_separation_token == <<"\n\n">>

\* (mutant) the whole message is yielded where the new suffix is due
StreamOnResponseWhole(prev, resp) ==
    LET msg == resp.msg_to_user
    IN  IF msg = None \/ msg = Some(<<>>)
        THEN [prev_content |-> prev, out |-> <<>>]
        ELSE IF IsPrefix(prev, msg[1])
        THEN IF DropFirst(msg[1], Len(prev)) # <<>>
             THEN [prev_content |-> msg[1], out |-> <<msg[1]>>]
             ELSE [prev_content |-> prev, out |-> <<>>]
        ELSE [prev_content |-> msg[1],
              out |-> <<message_separation_token, msg[1]>>]

\* (mutant) prev_content is not updated when a separator is yielded
StreamOnResponseStalePrev(prev, resp) ==
    LET msg == resp.msg_to_user
    IN  IF msg = None \/ msg = Some(<<>>)
        THEN [prev_content |-> prev, out |-> <<>>]
        ELSE IF IsPrefix(prev, msg[1])
        THEN LET new_content == DropFirst(msg[1], Len(prev))
             IN  IF new_content # <<>>
                 THEN [prev_content |-> msg[1], out |-> <<new_content>>]
                 ELSE [prev_content |-> prev, out |-> <<>>]
        ELSE [prev_content |-> prev,
              out |-> <<message_separation_token, msg[1]>>]

\* the body of stream()'s loop for one response: the new prev_content and
\* the strings yielded
StreamOnResponse(prev, resp) ==
    LET msg == resp.msg_to_user
    IN  IF msg = None \/ msg = Some(<<>>)
        THEN [prev_content |-> prev, out |-> <<>>]
        ELSE IF IsPrefix(prev, msg[1])
        THEN LET new_content == DropFirst(msg[1], Len(prev))
             IN  IF new_content # <<>>
                 THEN [prev_content |-> msg[1], out |-> <<new_content>>]
                 ELSE [prev_content |-> prev, out |-> <<>>]
        ELSE [prev_content |-> msg[1],
              out |-> <<message_separation_token, msg[1]>>]

----------------------------------------------------------------------------
(* agent.py: LocalAgent.run.  The two optional hooks                       *)
(* (context_engineering_hook, agent_message_completion_hook) are the       *)
(* caller's code: they are taken to return without touching the loop's     *)
(* history, and the context they build only reaches the backend, whose     *)
(* answer is arbitrary here; the calls of the completion hook are counted. *)
(* The coroutine is cut at its awaits: the request, each chunk of the       *)
(* stream, the tool callback.                                              *)

\* the names run() treats as terminating actions
TerminatingNames == {"answer", "follow_up"}

\* `while iteration < self.max_iterations`
LoopCondition(it, max) == it < max

\* (mutant) the message is appended to a copy of root that is then dropped
RootAppendLost(h, root, msg) == [heap |-> h, root |-> root]

\* history.root.append(Message(...)): a new object at the tail, its id left
\* at the default None, no renumbering.  run() appends to root as to a list
\* (the History of _types.py); it does not go through add_message.
RootAppend(h, root, msg) ==
    [heap |-> Append(h, msg), root |-> Append(root, Len(h) + 1)]

AssistantMessage(resp) == Message(None, "assistant", <<"json", resp>>, <<>>)

ToolResultMessage(res) ==
    Message(None, "user", <<"Tool result: ", res>>, <<"is_tool_result">>)

\* (mutant) the continuation message carries no flag
NoActionMessageUnflagged ==
    Message(None, "user",
            <<"No action taken. You must conclude with an answer or a query.">>,
            <<>>)

NoActionMessage ==
    Message(None, "user",
            <<"No action taken. You must conclude with an answer or a query.">>,
            <<"is_system_response">>)

\* (mutant) run() works on the History it was given
model_copy_shared(h, root) == [heap |-> h, root |-> root, private |-> FALSE]

\* history.model_copy(deep=True): a new History whose root holds new Message
\* objects with the fields of the old ones
model_copy(h, root) ==
    [heap |-> h \o [i \in 1 .. Len(root) |-> h[root[i]]],
     root |-> [i \in 1 .. Len(root) |-> Len(h) + i],
     private |-> TRUE]

\* `if self.agent_message_completion_hook:` after the assistant message is
\* appended: the calls of the hook after a turn that had this response
HookCalls(calls, resp, hook) ==
    IF resp # None /\ hook THEN calls + 1 ELSE calls

\* `if response and response.action and self.tool_call_callback`
TakesAction(resp, callback) ==
    resp # None /\ resp[1].action # None /\ callback

\* the text chunks the backend sends in the agent loop
Deltas ==
    { <<>>,
      <<"{", "}">>,
      <<"{", "m", "a">>,
      <<"b">>,
      <<"q", ",", "t", "}">>,
      <<"q", ",", "f", "}">>,
      <<"q", ",", "m", "b">> }

histVars == <<call, result>>

\* the agent loop's variables when no loop runs
LoopIdle ==
    /\ max_iterations = 0
    /\ tool_call_callback = FALSE
    /\ iteration = 0
    /\ content = <<>>
    /\ last_yielded = DefaultResponse
    /\ response = None
    /\ yielded = <<>>
    /\ prev_content = <<>>
    /\ emitted = <<>>
    /\ error = "none"
    /\ turns = 0
    /\ ndeltas = 0
    /\ emit_turn = 0
    /\ caller_history = <<>>
    /\ private = FALSE
    /\ agent_message_completion_hook = FALSE
    /\ hook_calls = 0

\* the environment's variables when no environment is used
EnvIdle ==
    /\ tools = <<>>
    /\ context = <<>>
    /\ remaining = 0
    /\ max_history_length = None
    /\ reduce_history_by = 0
    /\ last_call = "none"
    /\ returned = [kind |-> "none", message |-> None, tool |-> "not called"]
    /\ used_terminating = <<>>
    /\ op = "none"

\* the aligner's variables when no schema is aligned
AlignIdle ==
    /\ base_fields = {}
    /\ aligned = None
    /\ candidate = None
    /\ verdict = "none"

Init ==
    /\ pc = "start"
    /\ max_iterations \in 0 .. MaxIterations
    /\ tool_call_callback \in BOOLEAN
    /\ iteration = 0
    /\ heap = SeedHeap
    /\ history = SeedHistory
    /\ content = <<>>
    /\ last_yielded = DefaultResponse
    /\ response = None
    /\ yielded = <<>>
    /\ prev_content = <<>>
    /\ emitted = <<>>
    /\ error = "none"
    /\ turns = 0
    /\ ndeltas = 0
    /\ emit_turn = 0
    /\ caller_history = SeedHistory
    /\ private = FALSE
    /\ agent_message_completion_hook \in BOOLEAN
    /\ hook_calls = 0
    /\ call = [msg |-> None, index |-> None]
    /\ result = "none"
    /\ EnvIdle
    /\ AlignIdle

\* run() is entered: `history = history.model_copy(deep=True)`, after which
\* the local name no longer refers to the caller's History
Start ==
    /\ pc = "start"
    /\ LET c == model_copy(heap, history)
       IN  /\ heap' = c.heap
           /\ history' = c.root
           /\ private' = c.private
    /\ pc' = "loop"
    /\ UNCHANGED <<max_iterations, tool_call_callback, iteration, content,
                   last_yielded, response, yielded, prev_content, emitted,
                   error, turns, ndeltas, emit_turn, caller_history,
                   agent_message_completion_hook, hook_calls>>
    /\ UNCHANGED histVars
    /\ UNCHANGED <<envVars, alignVars>>

\* the loop test succeeds: the iteration starts and the request is sent
EnterIteration ==
    /\ pc = "loop"
    /\ LoopCondition(iteration, max_iterations)
    /\ iteration' = iteration + 1
    /\ response' = None
    /\ content' = <<>>
    /\ last_yielded' = DefaultResponse
    /\ ndeltas' = 0
    /\ pc' = "stream"
    /\ UNCHANGED <<max_iterations, tool_call_callback, heap, history, yielded,
                   prev_content, emitted, error, turns, emit_turn>>
    /\ UNCHANGED histVars
    /\ UNCHANGED runVars
    /\ UNCHANGED <<envVars, alignVars>>

\* the loop test fails: raise MaxAgentIterationsExceededError
RaiseExceeded ==
    /\ pc = "loop"
    /\ ~LoopCondition(iteration, max_iterations)
    /\ pc' = "raised"
    /\ error' = "MaxAgentIterationsExceededError"
    /\ UNCHANGED <<max_iterations, tool_call_callback, iteration, heap,
                   history, content, last_yielded, response, yielded,
                   prev_content, emitted, turns, ndeltas, emit_turn>>
    /\ UNCHANGED histVars
    /\ UNCHANGED runVars
    /\ UNCHANGED <<envVars, alignVars>>

\* the backend sends a chunk: the decoder's loop body, and, when it yields,
\* run()'s `yield response` and stream()'s loop body
Chunk(delta) ==
    /\ pc = "stream"
    /\ ndeltas < MaxDeltas
    /\ ndeltas' = ndeltas + 1
    /\ LET d == DecodeChunk(content, last_yielded, delta)
       IN  /\ content' = d.content
           /\ last_yielded' = d.last_yielded
           /\ IF d.yield = None
              THEN UNCHANGED <<response, yielded, prev_content, emitted,
                               emit_turn>>
              ELSE LET s == StreamOnResponse(prev_content, d.yield[1])
                   IN  /\ response' = d.yield
                       /\ yielded' = Append(yielded, d.yield[1])
                       /\ prev_content' = s.prev_content
                       /\ emitted' = emitted \o s.out
                       /\ emit_turn' = IF s.out # <<>> THEN iteration
                                       ELSE emit_turn
    /\ UNCHANGED <<pc, max_iterations, tool_call_callback, iteration, heap,
                   history, error, turns>>
    /\ UNCHANGED histVars
    /\ UNCHANGED runVars
    /\ UNCHANGED <<envVars, alignVars>>

\* the backend's stream ends: the rest of the loop body up to the next await
StreamEnd ==
    /\ pc = "stream"
    /\ LET a == IF response # None
                THEN RootAppend(heap, history, AssistantMessage(response[1]))
                ELSE [heap |-> heap, root |-> history]
       IN  IF TakesAction(response, tool_call_callback)
           THEN /\ heap' = a.heap
                /\ history' = a.root
                /\ pc' = IF response[1].action[1].name \in TerminatingNames
                         THEN "returned" ELSE "tool"
                /\ UNCHANGED turns
           ELSE LET b == RootAppend(a.heap, a.root, NoActionMessage)
                IN  /\ heap' = b.heap
                    /\ history' = b.root
                    /\ pc' = "loop"
                    /\ turns' = turns + 1
    /\ hook_calls' = HookCalls(hook_calls, response,
                               agent_message_completion_hook)
    /\ UNCHANGED <<max_iterations, tool_call_callback, iteration, content,
                   last_yielded, response, yielded, prev_content, emitted,
                   error, ndeltas, emit_turn, caller_history, private,
                   agent_message_completion_hook>>
    /\ UNCHANGED histVars
    /\ UNCHANGED <<envVars, alignVars>>

\* tool_call_callback returns its result
ToolReturn(res) ==
    /\ pc = "tool"
    /\ LET b == RootAppend(heap, history, ToolResultMessage(res))
       IN  /\ heap' = b.heap
           /\ history' = b.root
    /\ pc' = "loop"
    /\ turns' = turns + 1
    /\ UNCHANGED <<max_iterations, tool_call_callback, iteration, content,
                   last_yielded, response, yielded, prev_content, emitted,
                   error, ndeltas, emit_turn>>
    /\ UNCHANGED histVars
    /\ UNCHANGED runVars
    /\ UNCHANGED <<envVars, alignVars>>

\* tool_call_callback raises: nothing in run() catches it
ToolRaise ==
    /\ pc = "tool"
    /\ pc' = "raised"
    /\ error' = "ToolError"
    /\ UNCHANGED <<max_iterations, tool_call_callback, iteration, heap,
                   history, content, last_yielded, response, yielded,
                   prev_content, emitted, turns, ndeltas, emit_turn>>
    /\ UNCHANGED histVars
    /\ UNCHANGED runVars
    /\ UNCHANGED <<envVars, alignVars>>

Next ==
    \/ Start
    \/ EnterIteration
    \/ RaiseExceeded
    \/ \E delta \in Deltas : Chunk(delta)
    \/ StreamEnd
    \/ \E res \in {"ok"} : ToolReturn(res)
    \/ ToolRaise

Spec == Init /\ [][Next]_vars

----------------------------------------------------------------------------
(* The decoder on its own: one call of stream_agent_response fed the       *)
(* backend's text piece by piece.                                          *)

\* the backend's chunks: one piece each, or an empty delta
PieceDeltas == {<<>>} \cup {<<piece>> : piece \in Pieces}

InitDecoder ==
    /\ pc = "decoding"
    /\ heap = <<>>
    /\ history = <<>>
    /\ call = [msg |-> None, index |-> None]
    /\ result = "none"
    /\ EnvIdle
    /\ AlignIdle
    /\ LoopIdle

\* a chunk arrives: the decoder's loop body; a yield goes to the caller
DecoderChunk(delta) ==
    /\ pc = "decoding"
    /\ ndeltas < MaxTokens
    /\ ndeltas' = ndeltas + 1
    /\ LET d == DecodeChunk(content, last_yielded, delta)
       IN  /\ content' = d.content
           /\ last_yielded' = d.last_yielded
           /\ yielded' = yielded \o d.yield
    /\ UNCHANGED <<pc, max_iterations, tool_call_callback, iteration, heap,
                   history, response, prev_content, emitted, error, turns,
                   emit_turn>>
    /\ UNCHANGED histVars
    /\ UNCHANGED runVars
    /\ UNCHANGED <<envVars, alignVars>>

\* the stream ends: the generator returns, nothing more is yielded
DecoderEnd ==
    /\ pc = "decoding"
    /\ pc' = "decoded"
    /\ UNCHANGED <<max_iterations, tool_call_callback, iteration, heap,
                   history, content, last_yielded, response, yielded,
                   prev_content, emitted, error, turns, ndeltas, emit_turn>>
    /\ UNCHANGED histVars
    /\ UNCHANGED runVars
    /\ UNCHANGED <<envVars, alignVars>>

NextDecoder ==
    \/ \E delta \in PieceDeltas : DecoderChunk(delta)
    \/ DecoderEnd

SpecDecoder == InitDecoder /\ [][NextDecoder]_vars

----------------------------------------------------------------------------
(* The history store on its own: a validated History and a caller that     *)
(* builds Message objects and calls add_message.                           *)

\* the indices a caller passes: None, or an integer around [0, length]
Indices(root) == {None} \cup {Some(i) : i \in -1 .. Len(root) + 1}

InitHistory ==
    /\ pc = "caller"
    /\ \/ heap = <<>> /\ history = <<>>
       \/ heap = SeedHeap /\ history = SeedHistory
    /\ call = [msg |-> None, index |-> None]
    /\ result = "none"
    /\ EnvIdle
    /\ AlignIdle
    /\ LoopIdle

\* the caller constructs a Message (id left None) without adding it
NewMessage(role) ==
    /\ Len(heap) < MaxHistLen
    /\ heap' = Append(heap, Message(None, role, <<"text">>, <<>>))
    /\ call' = [msg |-> None, index |-> None]
    /\ result' = "constructed"
    /\ UNCHANGED <<pc, history>>
    /\ UNCHANGED loopVars
    /\ UNCHANGED <<envVars, alignVars>>

\* history.add_message(role=..., content=..., index=...)
AddMessageFields(role, index) ==
    LET r == add_message(heap, history, None, role, <<"text">>, <<>>, index)
    IN  /\ Len(history) < MaxHistLen
        /\ heap' = r.heap
        /\ history' = r.root
        /\ result' = r.result
        /\ call' = [msg |-> None, index |-> index]
        /\ UNCHANGED pc
        /\ UNCHANGED loopVars
        /\ UNCHANGED <<envVars, alignVars>>

\* history.add_message(msg, index=...) with a Message object the caller holds
AddMessageObject(ref, index) ==
    LET r == add_message(heap, history, Some(ref), "user", <<>>, <<>>, index)
    IN  /\ Len(history) < MaxHistLen
        /\ heap' = r.heap
        /\ history' = r.root
        /\ result' = r.result
        /\ call' = [msg |-> Some(ref), index |-> index]
        /\ UNCHANGED pc
        /\ UNCHANGED loopVars
        /\ UNCHANGED <<envVars, alignVars>>

NextHistory ==
    \/ \E role \in {"user"} : NewMessage(role)
    \/ \E role \in {"assistant"}, index \in Indices(history) :
          AddMessageFields(role, index)
    \/ \E ref \in 1 .. Len(heap), index \in Indices(history) :
          AddMessageObject(ref, index)

SpecHistory == InitHistory /\ [][NextHistory]_vars

----------------------------------------------------------------------------
(* utils.py: align_schema_with_tools, and the validation of a response      *)
(* against the model it creates (schema.model_validate, llm.py).            *)
(* A tool's inputSchema is modelled by the set of argument names it         *)
(* requires; the arguments of an action by the set of names they give.      *)

\* mcp.types.Tool: name, inputSchema, and whether meta["localagent"] holds
\* "TERMINATING"
Tool(name, inputSchema, terminating) ==
    [name |-> name, inputSchema |-> inputSchema, terminating |-> terminating]

ToolA == Tool("a", {"x"}, FALSE)
ToolB == Tool("b", {"y"}, FALSE)

\* create_tool_call_schema(tool_name, input_schema)
create_tool_call_schema(tool_name, input_schema) ==
    [type |-> "object", tool_name |-> tool_name, arguments |-> input_schema]

\* align_schema_with_tools(schema, tools): the model create_model returns.
\* Every field of the schema is kept; the action field is annotated
\* CallToolRequestParams | None and carries, as WithJsonSchema metadata, the
\* anyOf of the tools' call shapes and null.
align_schema_with_tools(fields, tls) ==
    [fields |-> fields,
     action_json_schema |->
        IF "action" \in fields
        THEN [i \in 1 .. Len(tls) |->
                 create_tool_call_schema(tls[i].name, tls[i].inputSchema)]
             \o <<[type |-> "null"]>>
        ELSE <<>>]

\* CallToolRequestParams validates: tool_name is a str and arguments are
\* given (any object validates as the unparametrised arguments type)
ValidCall(action) == action.arguments # None

\* schema.model_validate(parsed) on the created model, for a parsed object
\* whose action is `action` (None for null).  pydantic validates a field by
\* its annotation; WithJsonSchema changes the generated JSON schema only.
\* A model without an action field ignores the key.
model_validate(model, action) ==
    IF "action" \notin model.fields \/ action = None THEN "accepted"
    ELSE IF ValidCall(action[1]) THEN "accepted"
    ELSE "rejected"


\* the tool lists given to the aligner: every list of at most MaxTools tools
ToolLists ==
    UNION {[1 .. n -> {ToolA, ToolB}] : n \in 0 .. MaxTools}

\* the actions of the responses validated: null, or a call naming a, b or c
\* with some arguments or with none given
Candidates ==
    {None} \cup
    {Some([tool_name |-> n, arguments |-> args]) :
        n \in {"a", "b", "c"},
        args \in {None} \cup {Some(ks) : ks \in SUBSET {"x", "y"}}}

InitAligner ==
    /\ pc = "aligner"
    /\ heap = <<>>
    /\ history = <<>>
    /\ call = [msg |-> None, index |-> None]
    /\ result = "none"
    /\ LoopIdle
    /\ tools \in ToolLists
    /\ context = <<>>
    /\ remaining = 0
    /\ max_history_length = None
    /\ reduce_history_by = 0
    /\ last_call = "none"
    /\ returned = [kind |-> "none", message |-> None, tool |-> "not called"]
    /\ used_terminating = <<>>
    /\ op = "none"
    /\ base_fields \in SUBSET {"msg_to_user", "action", "turn_completed"}
    /\ aligned = None
    /\ candidate = None
    /\ verdict = "none"

\* schema = align_schema_with_tools(base, tools)
Align ==
    /\ pc = "aligner"
    /\ aligned = None
    /\ aligned' = Some(align_schema_with_tools(base_fields, tools))
    /\ UNCHANGED <<pc, heap, history, base_fields, candidate, verdict>>
    /\ UNCHANGED <<loopVars, histVars, envVars>>

\* schema.model_validate(parsed) for a parsed response with this action
Validate(action) ==
    /\ pc = "aligner"
    /\ aligned # None
    /\ candidate' = action
    /\ verdict' = model_validate(aligned[1], action)
    /\ UNCHANGED <<pc, heap, history, base_fields, aligned>>
    /\ UNCHANGED <<loopVars, histVars, envVars>>

NextAligner ==
    \/ Align
    \/ \E action \in Candidates : Validate(action)

SpecAligner == InitAligner /\ [][NextAligner]_vars

----------------------------------------------------------------------------
(* environment.py: DefaultEnvironment.  The stored history (self.history)   *)
(* is `history`, over the same object store `heap`.  get_context            *)
(* concatenates a list with the window of root, so root is read as a list   *)
(* here as in run().  The two functions it imports from history_utils,      *)
(* last_summary_index and create_summary_entry, follow the specification's  *)
(* description of the summary boundary and of compaction.                   *)

HasFlag(m, flag) == \E i \in 1 .. Len(m.flags) : m.flags[i] = flag

\* the position of the most recent is_summary message, 0 when there is none
last_summary_index(h, root) ==
    LET S == {p \in 1 .. Len(root) : HasFlag(h[root[p]], "is_summary")}
    IN  IF S = {} THEN 0
        ELSE (CHOOSE p \in S : \A q \in S : q <= p) - 1

\* the oldest reduce_by messages after the last summary are replaced by one
\* new message flagged is_summary; the rest is kept as it is; the result is
\* a validated History
create_summary_entry(h, root, reduce_by) ==
    LET S     == {p \in 1 .. Len(root) : HasFlag(h[root[p]], "is_summary")}
        start == IF S = {} THEN 0 ELSE last_summary_index(h, root) + 1
        live  == Len(root) - start
        n     == IF reduce_by < live THEN reduce_by ELSE live
        h1    == Append(h, Message(None, "user", <<"summary">>,
                                   <<"is_summary">>))
        r1    == SubSeq(root, 1, start) \o <<Len(h) + 1>>
                 \o SubSeq(root, start + n + 1, Len(root))
    IN  [heap |-> ensure_valid_ids(h1, r1), root |-> r1]

\* the test that guards the compaction in get_context
NeedsCompaction(h, root, max) ==
    /\ max # None
    /\ Len(root) - last_summary_index(h, root) > max[1]

\* the names of the tools whose meta marks them TERMINATING, in the order
\* of the tool list
TerminatingToolNames(tls) ==
    LET sel == SelectSeq(tls, LAMBDA t : t.terminating)
    IN  [i \in 1 .. Len(sel) |-> sel[i].name]

\* system_prompt_template.render(tools=, remaining_iterations=,
\* terminating_tools=, extra_instructions=): the text is a function of what
\* it is rendered from
RenderSystemPrompt(tls, remaining_iterations) ==
    <<"system prompt", tls, TerminatingToolNames(tls), remaining_iterations>>

\* (mutant) the window is taken as it is
StripStaleNever(h, window) == window

\* `if history.root and is_system_instruction in history.root[0].flags:
\*      history.root = history.root[1:]`
StripStale(h, window) ==
    IF window # <<>> /\ HasFlag(h[window[1]], "is_system_instruction")
    THEN Tail(window) ELSE window

\* DefaultEnvironment.get_context(remaining_iterations) with the tool list
\* get_tools() answers: the object store, the stored history and the
\* context after the call.  History.model_validate keeps the Message
\* objects it is given and renumbers them (validate_ids).
get_context(h, root, max, reduce_by, tls, remaining_iterations) ==
    LET summarize == NeedsCompaction(h, root, max)
        c   == IF summarize THEN create_summary_entry(h, root, reduce_by)
               ELSE [heap |-> h, root |-> root]
        window   == DropFirst(c.root, last_summary_index(c.heap, c.root))
        h2       == ensure_valid_ids(c.heap, window)
        stripped == StripStale(h2, window)
        sys == Message(None, "system",
                       RenderSystemPrompt(tls, remaining_iterations),
                       <<"is_system_instruction">>)
        ctx == <<Len(h2) + 1>> \o stripped
    IN  [heap |-> ensure_valid_ids(Append(h2, sys), ctx), stored |-> c.root,
         context |-> ctx, summarized |-> summarize]

\* what call_tool can do in a subclass: return a string, return None, raise
ToolOutcomes == {"returned str", "returned None", "raised"}

\* what on_agent_message_completed returns: TERMINATE, a Message, or nothing
\* because call_tool raised; `tool` is what call_tool did
Returned(kind, message, tool) ==
    [kind |-> kind, message |-> message, tool |-> tool]

\* continuation_template.render(terminating_tools=...)
ContinuationMessage(names) ==
    Message(None, "user", <<"No tool was called", names>>,
            <<"is_system_response">>)

\* f"Tool result: {tool_result}" flagged is_tool_result
EnvToolResultMessage(outcome) ==
    Message(None, "user",
            <<"Tool result: ",
              IF outcome = "returned None" THEN "None" ELSE "ok">>,
            <<"is_tool_result">>)

\* DefaultEnvironment.on_agent_message_completed(last_response) with the
\* tool list get_tools() answers and what call_tool does when it is awaited
on_agent_message_completed(tls, last_response, outcome) ==
    LET terminating_tools == TerminatingToolNames(tls)
    IN  IF last_response.action = None
        THEN Returned("Message",
                      Some(ContinuationMessage(terminating_tools)),
                      "not called")
        ELSE IF \E i \in 1 .. Len(terminating_tools) :
                    terminating_tools[i] = last_response.action[1].name
        THEN Returned("TERMINATE", None, "not called")
        ELSE IF outcome = "raised"
        THEN Returned("raised", None, outcome)
        ELSE Returned("Message", Some(EnvToolResultMessage(outcome)), outcome)

\* the tools of the environment: search, and answer marked TERMINATING
SearchTool == Tool("search", {"query"}, FALSE)
AnswerTool == Tool("answer", {"answer"}, TRUE)

\* what the tools collaborator answers at one time or another
EnvToolLists == {<<SearchTool>>, <<SearchTool, AnswerTool>>}

\* the remaining_iterations the loop passes
Remainings == {0, 1}

InitEnv ==
    /\ pc = "env"
    /\ \/ heap = <<>> /\ history = <<>>
       \/ heap = SeedHeap /\ history = SeedHistory
    /\ call = [msg |-> None, index |-> None]
    /\ result = "none"
    /\ LoopIdle
    /\ AlignIdle
    /\ tools \in EnvToolLists
    /\ context = <<>>
    /\ remaining = 0
    /\ max_history_length \in {None, Some(1), Some(2)}
    /\ reduce_history_by \in {1, 2}
    /\ last_call = "none"
    /\ returned = Returned("none", None, "not called")
    /\ used_terminating = <<>>
    /\ op = "none"

\* The object store keeps the objects that are still referenced: a Message
\* that neither the stored history nor the caller's context refers to is
\* freed, and the references are renamed to the objects' new places.
Collect(h, root, ctx) ==
    LET live    == {root[i] : i \in 1 .. Len(root)}
                   \cup {ctx[i] : i \in 1 .. Len(ctx)}
        rank(r) == Cardinality({q \in live : q <= r})
        at(i)   == CHOOSE r \in live : rank(r) = i
    IN  [heap    |-> [i \in 1 .. Cardinality(live) |-> h[at(i)]],
         stored  |-> [i \in 1 .. Len(root) |-> rank(root[i])],
         context |-> [i \in 1 .. Len(ctx) |-> rank(ctx[i])]]

\* context = await env.get_context(remaining_iterations); the caller drops
\* the context it held before
GetContext(remaining_iterations) ==
    /\ pc \in {"env", "turn"}
    /\ \E g \in {get_context(heap, history, max_history_length,
                               reduce_history_by, tools,
                               remaining_iterations)} :
       \E c \in {Collect(g.heap, g.stored, g.context)} :
           /\ Len(c.heap) <= MaxObjects
           /\ heap' = c.heap
           /\ history' = c.stored
           /\ context' = c.context
           /\ last_call' = IF g.summarized THEN "summarized" ELSE "kept"
    /\ remaining' = remaining_iterations
    /\ pc' = "turn"
    /\ op' = "get_context"
    /\ UNCHANGED <<tools, max_history_length, reduce_history_by, returned,
                   used_terminating>>
    /\ UNCHANGED <<loopVars, histVars, alignVars>>

\* env.history.add_message(role="user", content=...): a message is added
\* to the stored history
AppendMessage ==
    /\ pc \in {"env", "turn"}
    /\ Len(heap) < MaxObjects
    /\ LET r == add_message(heap, history, None, "user", <<"text">>, <<>>,
                            None)
       IN  /\ heap' = r.heap
           /\ history' = r.root
    /\ last_call' = "none"
    /\ op' = "add_message"
    /\ UNCHANGED <<pc, tools, context, remaining, max_history_length,
                   reduce_history_by, returned, used_terminating>>
    /\ UNCHANGED <<loopVars, histVars, alignVars>>

\* env.history = context: the context last returned becomes the stored
\* history
StoreContext ==
    /\ pc \in {"env", "turn"}
    /\ context # <<>>
    /\ history # context
    /\ history' = context
    /\ last_call' = "none"
    /\ op' = "history assigned"
    /\ UNCHANGED <<pc, heap, tools, context, remaining, max_history_length,
                   reduce_history_by, returned, used_terminating>>
    /\ UNCHANGED <<loopVars, histVars, alignVars>>

\* the collaborator behind get_tools changes its answer
ToolsChange(tls) ==
    /\ pc \in {"env", "turn"}
    /\ tls # tools
    /\ tools' = tls
    /\ op' = "tools changed"
    /\ UNCHANGED <<pc, heap, history, context, remaining, max_history_length,
                   reduce_history_by, last_call, returned, used_terminating>>
    /\ UNCHANGED <<loopVars, histVars, alignVars>>

\* await env.on_agent_message_completed(response) for the turn's response
Completed(action, outcome) ==
    /\ pc = "turn"
    /\ returned' = on_agent_message_completed(
                        tools, AgentResponse(None, action, FALSE), outcome)
    /\ used_terminating' = TerminatingToolNames(tools)
    /\ pc' = "env"
    /\ op' = "on_agent_message_completed"
    /\ candidate' = action
    /\ UNCHANGED <<heap, history, tools, context, remaining,
                   max_history_length, reduce_history_by, last_call>>
    /\ UNCHANGED <<loopVars, histVars, base_fields, aligned, verdict>>

\* the environment, its stored history and its callers
NextEnv ==
    \/ \E r \in Remainings : GetContext(r)
    \/ AppendMessage
    \/ StoreContext
    \/ \E tls \in EnvToolLists : ToolsChange(tls)

SpecEnv == InitEnv /\ [][NextEnv]_vars

\* the turns of a loop on the environment: the context is assembled, the
\* backend answers, the completed response is handed to the environment
NextTurn ==
    \/ \E r \in Remainings : GetContext(r)
    \/ \E tls \in EnvToolLists : ToolsChange(tls)
    \/ \E action \in {None, Some(Action("search")), Some(Action("answer"))},
          outcome \in ToolOutcomes : Completed(action, outcome)

SpecTurn == InitEnv /\ [][NextTurn]_vars

----------------------------------------------------------------------------
(* Helpers of the properties *)

Range(s) == {s[i] : i \in 1 .. Len(s)}

\* the text stream() has yielded since its last separator (or since the
\* start), concatenated
RECURSIVE SinceSeparator(_)
SinceSeparator(e) ==
    IF e = <<>> \/ Last(e) = message_separation_token THEN <<>>
    ELSE SinceSeparator(SubSeq(e, 1, Len(e) - 1)) \o Last(e)

\* what a step added to stream()'s output
NewlyEmitted == DropFirst(emitted', Len(emitted))

\* the stream of the current turn ends in this step
StreamEnds == pc = "stream" /\ pc' # "stream"

----------------------------------------------------------------------------
(* The agent loop *)

\* C1 (as claimed): run() ends without a terminating action only by raising
\* MaxAgentIterationsExceededError, and only after exactly max_iterations
\* turns ran to their end; it never starts more turns than that.
C1_LoopBudget ==
    /\ iteration <= max_iterations
    /\ pc = "loop" => turns = iteration
    /\ pc = "raised" =>
          /\ error = "MaxAgentIterationsExceededError"
          /\ turns = max_iterations

\* the budget alone: however run() ends, it starts at most max_iterations
\* turns, every started turn has run to its end when the loop test is
\* evaluated, and MaxAgentIterationsExceededError comes after exactly
\* max_iterations turns
LoopBudgetOfCompletedTurns ==
    /\ iteration <= max_iterations
    /\ turns <= iteration
    /\ pc = "loop" => turns = iteration
    /\ error = "MaxAgentIterationsExceededError" =>
          pc = "raised" /\ turns = max_iterations

\* C2 (as claimed): when the first turn ends the loop, the last thing run()
\* yielded is a response with turn_completed true, the only such response,
\* and run() returns.
C2_FinalResponseYielded ==
    (pc = "returned" /\ iteration = 1) =>
        /\ yielded # <<>>
        /\ Last(yielded).turn_completed
        /\ Cardinality({i \in 1 .. Len(yielded) :
                            yielded[i].turn_completed}) = 1

\* C3 (as claimed): a stream that ends without any snapshot makes run() fail:
\* nothing is appended to the history and no further iteration starts.
C3_StarvationIsFatal ==
    [][(StreamEnds /\ response = None) =>
          (pc' = "raised" /\ history' = history /\ heap' = heap)]_vars

\* C4 (as claimed): when the tool callback ends, by returning or by raising,
\* run() goes on: a user message flagged is_tool_result is appended and the
\* loop proceeds to its next test; the exception does not leave run().
C4_ToolFailureRecovered ==
    [][(pc = "tool" /\ pc' # "tool") =>
          (/\ pc' = "loop"
           /\ error' = "none"
           /\ Len(history') = Len(history) + 1
           /\ heap'[Last(history')].role = "user"
           /\ heap'[Last(history')].flags = <<"is_tool_result">>)]_vars

\* C5 (as claimed): in every configuration, a turn whose final response
\* carries a terminating action ends the loop: the tool callback is not
\* awaited, only the assistant message is appended, no iteration follows.
C5_TerminatingActionEndsLoop ==
    [][(/\ StreamEnds
        /\ response # None
        /\ response[1].action # None
        /\ response[1].action[1].name \in TerminatingNames) =>
          (/\ pc' = "returned"
           /\ Len(history') = Len(history) + 1
           /\ heap'[Last(history')].role = "assistant")]_vars

----------------------------------------------------------------------------
(* The history store *)

\* every message's id is its zero-based position
IdsEqualPositions ==
    \A p \in 1 .. Len(history) : heap[history[p]].id = Some(p - 1)

\* no Message object stands at two positions of the history
NoSharedObject ==
    \A p, q \in 1 .. Len(history) : history[p] = history[q] => p = q

\* C6 (as claimed): after any sequence of add_message calls on a validated
\* History, the message at position p has id p.
C6_IdsArePositions == IdsEqualPositions

\* the same, for histories in which no object stands twice
IdsArePositionsUnlessShared == NoSharedObject => IdsEqualPositions

\* C7: add_message raises IndexError exactly when an index is given that is
\* below 0 or above the length, and then the history (its length, order and
\* ids) and the message passed in are as before the call.
C7_OutOfRangeInsert ==
    [][/\ result' \in {"ok", "IndexError"} =>
            (result' = "IndexError" <=>
                (/\ call'.index # None
                 /\ \/ call'.index[1] < 0
                    \/ call'.index[1] > Len(history)))
       /\ result' = "IndexError" => (history' = history /\ heap' = heap)]_vars

C7_Witness ==
    /\ result = "IndexError"
    /\ Len(history) >= 1
    /\ call.msg # None
    /\ heap[call.msg[1]].id = None

----------------------------------------------------------------------------
(* stream() *)

\* C8: a response whose msg_to_user is None or empty makes stream() yield
\* nothing; a non-empty msg_to_user that extends what was yielded since the
\* last separator makes it yield exactly the appended suffix, and nothing when
\* the suffix is empty; a step without a response yields nothing.
C8_StreamIncrements ==
    [][IF yielded' # yielded
       THEN LET msg == Last(yielded').msg_to_user
                p   == SinceSeparator(emitted)
            IN  IF msg = None \/ msg = Some(<<>>)
                THEN emitted' = emitted
                ELSE IsPrefix(p, msg[1]) =>
                        emitted' = IF msg[1] = p THEN emitted
                                   ELSE Append(emitted,
                                               DropFirst(msg[1], Len(p)))
       ELSE emitted' = emitted]_vars

C8_Witness ==
    /\ emitted = << <<"a">>, <<"b">> >>
    /\ prev_content = <<"a", "b">>

\* C9 (as claimed): stream() yields the separator only for a message of a new
\* turn (never before its first text, never after text of the same turn),
\* namely when that non-empty message does not extend what was yielded
\* before, and the whole message follows the separator.
C9_SeparatorOnlyBetweenTurns ==
    [][(message_separation_token \in Range(NewlyEmitted)) =>
          (/\ emitted # <<>>
           /\ emit_turn # iteration
           /\ yielded' # yielded
           /\ LET msg == Last(yielded').msg_to_user
              IN  /\ msg # None
                  /\ ~IsPrefix(SinceSeparator(emitted), msg[1])
                  /\ NewlyEmitted =
                        <<message_separation_token, msg[1]>>)]_vars

\* the same without the turns: the separator is yielded exactly for a
\* non-empty message that does not extend what was yielded before
SeparatorOnDiscontinuity ==
    [][LET discontinuity ==
               /\ yielded' # yielded
               /\ Last(yielded').msg_to_user \notin {None, Some(<<>>)}
               /\ ~IsPrefix(SinceSeparator(emitted),
                            Last(yielded').msg_to_user[1])
       IN  /\ message_separation_token \in Range(NewlyEmitted)
                 <=> discontinuity
           /\ discontinuity =>
                (NewlyEmitted = <<message_separation_token,
                                  Last(yielded').msg_to_user[1]>>)]_vars

----------------------------------------------------------------------------
(* The decoder *)

\* C10: no snapshot the decoder yields equals the one it yielded just before:
\* a delta whose accumulated text validates to the last yielded value yields
\* nothing.
C10_NoRepeatedSnapshot ==
    /\ \A i \in 2 .. Len(yielded) : yielded[i] # yielded[i - 1]
    /\ yielded # <<>> => Last(yielded) = last_yielded

C10_Witness ==
    /\ content = <<"{", "m", "a", "q">>
    /\ ParseAndValidate(content) = Some(Last(yielded))
    /\ Len(yielded) = 2

\* the text is one complete JSON object: its closing brace is its last piece
CompleteJson(text) ==
    /\ text # <<>>
    /\ ParseFrom(ParserStart, text).mode = "closed"
    /\ ParseFrom(ParserStart, SubSeq(text, 1, Len(text) - 1)).mode # "closed"

\* the full text validated directly against the schema, None when it is not
\* valid JSON conforming to the schema
DirectValidate(text) ==
    IF CompleteJson(text) THEN ParseAndValidate(text) ELSE None

\* C11 (as claimed): when the stream has ended and the deltas' concatenation
\* is valid JSON conforming to the schema, the decoder has yielded at least
\* one snapshot and the last one equals the direct validation of the text.
C11_FinalValueYielded ==
    (pc = "decoded" /\ DirectValidate(content) # None) =>
        /\ yielded # <<>>
        /\ Last(yielded) = DirectValidate(content)[1]

\* the same for texts whose value is not the default-constructed response
FinalValueUnlessDefault ==
    (/\ pc = "decoded"
     /\ DirectValidate(content) # None
     /\ DirectValidate(content) # Some(DefaultResponse)) =>
        /\ yielded # <<>>
        /\ Last(yielded) = DirectValidate(content)[1]

\* C14 (as claimed): within one stream, a snapshot yielded after one with a
\* non-empty msg_to_user has a msg_to_user that extends it; text that would
\* rewrite it is not yielded.
C14_MsgToUserMonotonic ==
    [][(/\ yielded' # yielded
        /\ response # None
        /\ response[1].msg_to_user \notin {None, Some(<<>>)}) =>
          (/\ Last(yielded').msg_to_user # None
           /\ IsPrefix(response[1].msg_to_user[1],
                       Last(yielded').msg_to_user[1]))]_vars

----------------------------------------------------------------------------
(* The schema aligner *)

\* the arguments conform to a tool's argument schema: every required
\* argument is given
Conforms(arguments, inputSchema) == inputSchema \subseteq arguments

\* the action is a call of one of the tools with conforming arguments
CallsOneOf(action, tls) ==
    /\ action.arguments # None
    /\ \E i \in 1 .. Len(tls) :
          /\ tls[i].name = action.tool_name
          /\ Conforms(action.arguments[1], tls[i].inputSchema)

\* C12 (as claimed): against the schema aligned with tools named a and b, a
\* response validates exactly when its action is null or names one of the
\* tools and gives arguments conforming to that tool's argument schema.
C12_AlignedSchemaValidates ==
    (/\ verdict # "none"
     /\ "action" \in base_fields
     /\ {tools[i].name : i \in 1 .. Len(tools)} = {"a", "b"}) =>
        (verdict = "accepted" <=>
            (candidate = None \/ CallsOneOf(candidate[1], tools)))

\* two tools of the list share a name
DuplicateNames(tls) ==
    \E i, j \in 1 .. Len(tls) : i # j /\ tls[i].name = tls[j].name

\* C13 (as claimed): no schema is produced for a tool list in which two
\* tools share a name, nor for a base schema lacking msg_to_user or action.
C13_ConfigurationErrorsRejected ==
    (\/ DuplicateNames(tools)
     \/ "msg_to_user" \notin base_fields
     \/ "action" \notin base_fields) => aligned = None

----------------------------------------------------------------------------
(* The agent loop: order of a turn's steps, ids of the loop's history *)

\* C18: an iteration starts only at the loop test, when every earlier turn
\* has run to its end: its stream has ended, its assistant message (if it
\* had a response) and, after the tool returned, its continuation message
\* are the last messages of the history.
C18_StrictSequencing ==
    [][(iteration' # iteration /\ iteration >= 1) =>
          (/\ pc = "loop"
           /\ turns = iteration
           /\ Len(history) >= 2
           /\ heap[Last(history)].role = "user"
           /\ \/ HasFlag(heap[Last(history)], "is_tool_result")
              \/ HasFlag(heap[Last(history)], "is_system_response")
           /\ response # None =>
                 heap[history[Len(history) - 1]] =
                    AssistantMessage(response[1]))]_vars

\* a second iteration started after a turn that awaited the tool
C18_Witness ==
    /\ iteration = 2
    /\ pc = "stream"
    /\ Len(history) = 3
    /\ heap[history[2]].role = "assistant"
    /\ HasFlag(heap[history[3]], "is_tool_result")

\* C20 (as claimed): while run() executes, every message of the loop's
\* history has a non-null id, and the ids are 0 .. n-1 in order.
C20_IdsContiguousInRun ==
    \A p \in 1 .. Len(history) :
        /\ heap[history[p]].id # None
        /\ heap[history[p]].id[1] = p - 1

----------------------------------------------------------------------------
(* The environment *)

\* the stored history's window on which a context is built: the messages
\* from the last summary on, without a leading system instruction
LiveWindow(h, root) ==
    LET window == DropFirst(root, last_summary_index(h, root))
    IN  IF window # <<>> /\ HasFlag(h[window[1]], "is_system_instruction")
        THEN Tail(window) ELSE window

\* C15: every context get_context returns starts with a system message
\* flagged is_system_instruction that is rendered from the tools of that
\* moment and the remaining_iterations of that call; the stored history's
\* live window follows, without its leading system instruction if it had
\* one; the context never has a second system instruction at its head.
C15_FreshSystemInstruction ==
    [][op' = "get_context" =>
          (/\ context' # <<>>
           /\ heap'[context'[1]].role = "system"
           /\ HasFlag(heap'[context'[1]], "is_system_instruction")
           /\ heap'[context'[1]].content =
                 RenderSystemPrompt(tools, remaining')
           /\ Tail(context') = LiveWindow(heap', history')
           /\ Len(context') >= 2 =>
                 ~HasFlag(heap'[context'[2]], "is_system_instruction"))]_vars

\* a context was built on a stored history that began with the system
\* instruction of an earlier context
C15_Witness ==
    /\ op = "get_context"
    /\ history # <<>>
    /\ HasFlag(heap[history[1]], "is_system_instruction")
    /\ Len(context) = Len(history)
    /\ Len(context) >= 2
    /\ context[1] # history[1]
    /\ heap[context[1]].content # heap[history[1]].content

\* C16 (as claimed): of two consecutive get_context calls with no message
\* added in between, at most one invokes the summarizer.
C16_CompactionIdempotent ==
    [][(op' = "get_context" /\ last_call = "summarized") =>
          last_call' # "summarized"]_vars

\* C17 (as claimed): when call_tool returns None for a non-terminating
\* action, on_agent_message_completed returns TERMINATE.
C17_NoneResultTerminates ==
    returned.tool = "returned None" => returned.kind = "TERMINATE"

\* C19 (as claimed): the terminating tools on_agent_message_completed
\* decides with, and the tool list they come from, are those the system
\* instruction of the turn's context was rendered from.
C19_ToolsStableWithinIteration ==
    [][op' = "on_agent_message_completed" =>
          (/\ heap[context[1]].content[2] = tools
           /\ heap[context[1]].content[3] = used_terminating')]_vars

----------------------------------------------------------------------------
(* The turn's end *)

\* C21: when the final response of a turn has no action, the step that
\* follows the stream neither returns nor calls the tool: it appends the
\* assistant message and then exactly one user message flagged
\* is_system_response, and the loop goes on to its next test.
C21_NoActionContinues ==
    [][(StreamEnds /\ response # None /\ response[1].action = None) =>
          (/\ pc' = "loop"
           /\ Len(history') = Len(history) + 2
           /\ SubSeq(history', 1, Len(history)) = history
           /\ heap'[history'[Len(history) + 1]] =
                  AssistantMessage(response[1])
           /\ heap'[Last(history')].role = "user"
           /\ heap'[Last(history')].flags = <<"is_system_response">>)]_vars

\* a turn whose final response had no action ran to its end, and the loop
\* went on to a second turn
C21_Witness ==
    /\ pc = "stream"
    /\ iteration = 2
    /\ ndeltas = 0
    /\ yielded # <<>>
    /\ Last(yielded).action = None
    /\ HasFlag(heap[Last(history)], "is_system_response")
    /\ heap[history[Len(history) - 1]].role = "assistant"

\* the same step in DefaultEnvironment: for a response with no action
\* on_agent_message_completed returns a user Message flagged
\* is_system_response, not TERMINATE, and call_tool is not awaited
ContinuationWhenNoAction ==
    (op = "on_agent_message_completed" /\ candidate = None) =>
        /\ returned.kind = "Message"
        /\ returned.tool = "not called"
        /\ returned.message[1].role = "user"
        /\ returned.message[1].flags = <<"is_system_response">>

----------------------------------------------------------------------------
(* Compaction and the stored history *)

\* the messages strictly after the most recent is_summary message, all of
\* them when there is none
MessagesAfterLastSummary(h, root) ==
    LET S == {p \in 1 .. Len(root) : HasFlag(h[root[p]], "is_summary")}
    IN  IF S = {} THEN Len(root)
        ELSE Len(root) - (CHOOSE p \in S : \A q \in S : q <= p)

\* the messages of a history in order, their ids left aside
Unnumbered(h, root) ==
    [p \in 1 .. Len(root) |-> [h[root[p]] EXCEPT !.id = None]]

\* C22 (as claimed): get_context invokes the summarizer exactly when
\* max_history_length is set and more messages than that stand strictly
\* after the most recent summary (the summary itself is not counted);
\* otherwise the stored history keeps its messages.
C22_CompactionTrigger ==
    [][op' = "get_context" =>
          (/\ last_call' = "summarized" <=>
                  (/\ max_history_length # None
                   /\ MessagesAfterLastSummary(heap, history) >
                          max_history_length[1])
           /\ last_call' = "kept" =>
                  Unnumbered(heap', history') = Unnumbered(heap, history))]_vars

----------------------------------------------------------------------------
(* The decoder's failures and baseline *)

\* a chunk is taken by the decoder in this step
ChunkTaken == pc = "decoding" /\ ndeltas' = ndeltas + 1

\* C23: whatever a chunk does to the accumulated text, the decoder keeps
\* the whole buffer, raises nothing and stays in its loop; a text that fails
\* to parse or validate yields nothing, an empty delta changes nothing and
\* yields nothing, and a text that validates to a value other than the
\* last one yielded is yielded, whatever failed before it.
C23_FailuresAreTransient ==
    [][ChunkTaken =>
          (/\ IsPrefix(content, content')
           /\ pc' = "decoding"
           /\ error' = "none"
           /\ ParseAndValidate(content') = None => yielded' = yielded
           /\ content' = content =>
                  (yielded' = yielded /\ last_yielded' = last_yielded)
           /\ (/\ content' # content
               /\ ParseAndValidate(content') # None
               /\ ParseAndValidate(content')[1] # last_yielded) =>
                  yielded' = Append(yielded, ParseAndValidate(content')[1]))
       ]_vars

\* an action arrived in two deltas with an empty delta among the chunks:
\* the text failed to validate while the action lacked its arguments,
\* nothing was yielded then, and the completed action was yielded
C23_Witness ==
    /\ content = <<"{", "p", "r">>
    /\ ndeltas = 4
    /\ yielded = <<AgentResponse(None, Some(Action("search")), FALSE)>>

----------------------------------------------------------------------------
(* The loop's history at its suspension points *)

\* run() is suspended: it awaits the next chunk or the tool callback
Suspended == pc \in {"stream", "tool"}

\* C24 (as claimed): whenever run() is suspended, every message of its
\* history has the id of its position.
C24_IdsAtSuspensionPoints ==
    Suspended =>
        \A p \in 1 .. Len(history) : heap[history[p]].id = Some(p - 1)

\* what holds of it: whenever run() is suspended, the messages that went
\* through validation or add_message (those with an id) have the id of
\* their position; the messages run() appended have none
NumberedIdsAtSuspensionPoints ==
    Suspended =>
        \A p \in 1 .. Len(history) :
            heap[history[p]].id \in {None, Some(p - 1)}

----------------------------------------------------------------------------
(* The growth of the loop's history *)

\* the end of a stream that gave a response appends the assistant message
\* holding it and calls the completion hook, if there is one, once; a turn
\* that goes on to the tool or returns appends nothing else in that step,
\* a turn without a tool call appends its continuation message as well
AssistantThenHook ==
    (StreamEnds /\ response # None) =>
        /\ SubSeq(history', 1, Len(history)) = history
        /\ heap'[history'[Len(history) + 1]] = AssistantMessage(response[1])
        /\ hook_calls' = hook_calls +
                            (IF agent_message_completion_hook THEN 1 ELSE 0)
        /\ pc' \in {"tool", "returned", "loop"}
        /\ pc' \in {"tool", "returned"} => Len(history') = Len(history) + 1
        /\ pc' = "loop" =>
              /\ Len(history') = Len(history) + 2
              /\ heap'[Last(history')].role = "user"
              /\ heap'[Last(history')].flags = <<"is_system_response">>

\* the step that ends the wait for the tool appends one user message
\* flagged is_tool_result and calls no hook
ContinuationAfterTool ==
    /\ Len(history') = Len(history) + 1
    /\ SubSeq(history', 1, Len(history)) = history
    /\ heap'[Last(history')].role = "user"
    /\ heap'[Last(history')].flags = <<"is_tool_result">>
    /\ hook_calls' = hook_calls

\* C25 (as claimed): every turn that produced a response and did not
\* terminate appends exactly two messages, the assistant message and then
\* one user continuation message flagged is_tool_result or
\* is_system_response; the assistant message is appended and the completion
\* hook called once before the tool runs; a terminating turn appends only the
\* assistant message.
C25_HistoryGrowthPerTurn ==
    [][/\ AssistantThenHook
       /\ (pc = "tool" /\ pc' # "tool") => ContinuationAfterTool]_vars

\* what holds of it: the same, for the turns whose tool returned
HistoryGrowthWhenToolReturns ==
    [][/\ AssistantThenHook
       /\ (pc = "tool" /\ pc' = "loop") => ContinuationAfterTool]_vars

----------------------------------------------------------------------------
(* get_context and the stored history *)

\* C26 (as claimed): a get_context call that does not summarize leaves the
\* stored history with the same messages in the same order, each with the
\* id of its position.
C26_GetContextKeepsStoredIds ==
    [][(op' = "get_context" /\ last_call' = "kept") =>
          (/\ Unnumbered(heap', history') = Unnumbered(heap, history)
           /\ \A p \in 1 .. Len(history') :
                  heap'[history'[p]].id = Some(p - 1))]_vars

\* what holds of it: the messages and their order are kept, and each stored
\* message carries the id of its position in the returned context, which
\* shares the Message objects
StoredIdsFollowTheContext ==
    [][(op' = "get_context" /\ last_call' = "kept") =>
          (/\ Unnumbered(heap', history') = Unnumbered(heap, history)
           /\ \A p \in 1 .. Len(context') :
                  heap'[context'[p]].id = Some(p - 1))]_vars

----------------------------------------------------------------------------
(* The caller's History *)

\* the root of the History the caller passed to run(), as the caller sees
\* it: the loop's own `history` as long as that is the same object
CallerRoot == IF private THEN caller_history ELSE history

\* the messages of a history in order, with their ids
Numbered(h, root) == [p \in 1 .. Len(root) |-> h[root[p]]]

\* C27: at every point of a run, be it under way, returned or ended by an
\* exception, the caller's History holds the messages and ids it held
\* before the call; once run() has begun, its history is a copy that shares
\* no Message object with the caller's.
C27_CallerHistoryUntouched ==
    /\ Numbered(heap, CallerRoot) = Numbered(SeedHeap, SeedHistory)
    /\ pc # "start" =>
          /\ private
          /\ Range(history) \cap Range(caller_history) = {}

\* run() returned after a terminating action, having appended the assistant
\* message to its own history
C27_Witness ==
    /\ pc = "returned"
    /\ Len(history) = Len(caller_history) + 1
    /\ heap[Last(history)].role = "assistant"

----------------------------------------------------------------------------
(* The decoder's baseline in the loop *)

\* C28: the first snapshot a turn's stream yields is never the default
\* response; as long as the accumulated text fails or validates to the
\* default response nothing is yielded; and a turn whose stream yielded
\* nothing is handled as one without a response: no assistant message, the
\* no-action message, the next loop test.
C28_DefaultBaseline ==
    [][/\ (pc = "stream" /\ pc' = "stream" /\ response = None) =>
             /\ response' # None =>
                   /\ response'[1] # DefaultResponse
                   /\ yielded' = Append(yielded, response'[1])
             /\ ParseAndValidate(content') \in {None, Some(DefaultResponse)} =>
                   (response' = None /\ yielded' = yielded)
       /\ (StreamEnds /\ response = None) =>
             /\ pc' = "loop"
             /\ Len(history') = Len(history) + 1
             /\ heap'[Last(history')] = NoActionMessage
             /\ hook_calls' = hook_calls]_vars

\* the backend wrote {} and nothing else: nothing was yielded, and the turn
\* ended with the no-action message as the only message appended
C28_Witness ==
    /\ pc = "loop"
    /\ turns = 1
    /\ content = <<"{", "}">>
    /\ yielded = <<>>
    /\ Len(history) = 2
    /\ heap[Last(history)] = NoActionMessage

----------------------------------------------------------------------------
(* stream()'s bookkeeping *)

\* the msg_to_user of the most recent response that has a non-empty one,
\* the empty string when there is none
RECURSIVE LastNonEmptyMsg(_)
LastNonEmptyMsg(ys) ==
    IF ys = <<>> THEN <<>>
    ELSE IF Last(ys).msg_to_user \notin {None, Some(<<>>)}
    THEN Last(ys).msg_to_user[1]
    ELSE LastNonEmptyMsg(SubSeq(ys, 1, Len(ys) - 1))

\* C29: after every response stream() has processed, prev_content is the
\* most recent non-empty msg_to_user among the responses so far (the empty
\* string if there is none), and what stream() has yielded since its last
\* separator, concatenated, is prev_content.
C29_StreamBookkeeping ==
    /\ prev_content = LastNonEmptyMsg(yielded)
    /\ SinceSeparator(emitted) = prev_content

\* a separator was yielded, then a message, then an increment of it
C29_Witness ==
    /\ message_separation_token \in Range(emitted)
    /\ Last(emitted) # message_separation_token
    /\ Last(emitted) # prev_content
    /\ Len(SinceSeparator(emitted)) = 2

====
